---- MODULE Spec2Model ----
(***************************************************************************)
(* State-machine model of the JsonServer class (lib/server.ts) of          *)
(* @webmasterdevlin/json-server: the in-memory database, the backing JSON  *)
(* file and the generic resource routes registered by                      *)
(* createResourceRoutes.                                                    *)
(***************************************************************************)
EXTENDS Integers, Sequences, FiniteSets, TLC

VARIABLES db, dbPath, file, disk, now, req, resp,
          built, options, routes, url, pending, watcher

vars == <<db, dbPath, file, disk, now, req, resp, built, options, routes, url, pending, watcher>>

\* the server as built and started, the URL of the request in hand, the requests held by
\* the delay middleware and the state of the file watcher
server == <<built, options, routes, url, pending, watcher>>

(***************************************************************************)
(* Bounds of the model.                                                    *)
(***************************************************************************)
\* largest number of records the whole database holds before POST is no longer explored
MaxItems == 2
\* Date.now() of the first explored millisecond
Epoch == 1000
\* largest number of requests the delay middleware holds at once
MaxPending == 2

(***************************************************************************)
(* JSON / JavaScript values.  A scalar is [t, v] where v is String(value); *)
(* an object or an array is [t, f] where f maps own property names to      *)
(* scalars.                                                                *)
(***************************************************************************)
Undefined == [t |-> "undefined", v |-> "undefined"]
Null == [t |-> "null", v |-> "null"]
Num(s) == [t |-> "number", v |-> s]
Str(s) == [t |-> "string", v |-> s]
EmptyProps == [k \in {} |-> Undefined]
Obj(f) == [t |-> "object", f |-> f]
Arr(f) == [t |-> "array", f |-> f]

\* property names that are array indices
IndexKeys == {"0"}

\* JavaScript String(x) of a scalar
String(x) == x.v

\* JavaScript !x
Falsy(x) ==
  \/ x.t \in {"undefined", "null"}
  \/ x.t = "number" /\ x.v = "0"
  \/ x.t = "string" /\ x.v = ""

\* JavaScript typeof x
TypeOf(x) == IF x.t \in {"null", "array"} THEN "object" ELSE x.t

\* item[key]
Get(item, key) == IF key \in DOMAIN item.f THEN item.f[key] ELSE Undefined

\* item[key] = val
Put(item, key, val) ==
  [item EXCEPT !.f = [k \in (DOMAIN item.f) \cup {key} |->
                        IF k = key THEN val ELSE item.f[k]]]

\* { ...a, ...b }
Spread(a, b) ==
  Obj([k \in (DOMAIN a.f) \cup (DOMAIN b.f) |->
         IF k \in DOMAIN b.f THEN b.f[k] ELSE a.f[k]])

\* JSON.stringify of one record: an array keeps its index properties only,
\* an object drops the properties whose value is undefined
ToJSON(item) ==
  LET keep == IF item.t = "array"
              THEN (DOMAIN item.f) \cap IndexKeys
              ELSE {k \in DOMAIN item.f : item.f[k] # Undefined}
  IN [t |-> item.t, f |-> [k \in keep |-> item.f[k]]]

\* JSON.stringify of the whole database
Stringify(d) == [name \in DOMAIN d |-> [i \in 1..Len(d[name]) |-> ToJSON(d[name][i])]]

(***************************************************************************)
(* The backing file.                                                       *)
(***************************************************************************)
EmptyDb == [name \in {} |-> <<>>]
MissingFile == [state |-> "missing", doc |-> EmptyDb]
CorruptFile == [state |-> "corrupt", doc |-> EmptyDb]
JsonFile(doc) == [state |-> "json", doc |-> doc]

idField == "id"

\* Date.now().toString()
DateNowString(n) == ToString(n)

\* the resolved path of the database file
DbFilePath == "db.json"

(***************************************************************************)
(* Options, factories and custom routes.                                   *)
(***************************************************************************)
\* the ServerOptions that matter to the middleware chain, all switched off
DefaultOptions == [readOnly |-> FALSE, enableApiPrefix |-> FALSE, delay |-> 0]

\* createServer(options): new JsonServer(options)
createServer(o) == o

\* create(options): serverOptions lists readOnly and delay; it has no enableApiPrefix
\* property, so this.options.enableApiPrefix is undefined
create(o) == [readOnly |-> o.readOnly, enableApiPrefix |-> FALSE, delay |-> o.delay]

\* this.routes = {}
NoRoutes == {}

\* a URL is the sequence of its path segments; no request is in hand
NoUrl == <<>>

(***************************************************************************)
(* Inputs explored.                                                        *)
(***************************************************************************)
Resources == {"posts", "users"}
\* req.query without any parameter: _page, _per_page, _limit and the other (filter) parameters
NoFilter == [k \in {} |-> Undefined]
NoQuery ==
  [page |-> Undefined, per_page |-> Undefined, limit |-> Undefined, filter |-> NoFilter,
   sort |-> Undefined, order |-> Undefined]
Query(page, perPage, limit, filter) ==
  [NoQuery EXCEPT !.page = page, !.per_page = perPage, !.limit = limit, !.filter = filter]
\* the query q with _sort=field&_order=order added
Sorting(q, field, order) == [q EXCEPT !.sort = Str(field), !.order = Str(order)]
\* bodies sent to the loaded resource
PostBodies ==
  { Obj(EmptyProps),
    Obj([k \in {"title"} |-> Str("b")]),
    Obj([k \in {"id", "title"} |-> IF k = "id" THEN Str("1") ELSE Str("b")]),
    Obj([k \in {"id"} |-> Str("paginate")]),
    Obj([k \in {"id"} |-> Num("0")]),
    Obj([k \in {"id"} |-> Null]),
    Arr(EmptyProps),
    Undefined, Null, Str("a") }
UpdateBodies ==
  { Obj([k \in {"title"} |-> Str("b")]),
    Obj([k \in {"id"} |-> Str("2")]),
    Null, Str("a") }
\* the milliseconds explored: two consecutive instants
Clock == {Epoch, Epoch + 1}
ReqIds == {"1", "paginate"} \cup {DateNowString(n) : n \in Clock}
\* the requests explored: every combination on the loaded resource, a few on a new one
PostRequests ==
  ({"posts"} \X PostBodies) \cup ({"users"} \X {Obj(EmptyProps), Null})
UpdateRequests ==
  ({"posts"} \X ReqIds \X UpdateBodies)
  \cup ({"users"} \X {DateNowString(Epoch)} \X {Obj([k \in {"title"} |-> Str("b")]), Null})
ItemRequests == Resources \X ReqIds
\* the _page and _limit query parameters sent to /:resource/paginate
PaginateQueries ==
  { NoQuery,
    Query(Str("2"), Undefined, Str("1"), NoFilter),
    Query(Str("1"), Undefined, Str("-1"), NoFilter) }

\* the query parameters other than _page, _per_page and _limit sent to /:resource
Filters ==
  { [k \in {"title"} |-> Str("a")],
    [k \in {"title"} |-> Str("undefined")],
    [k \in {"id"} |-> Str("1")] }
\* the queries sent to /:resource: valid pages and sizes, invalid ones (negative, zero,
\* non-numeric, empty), both names of the size parameter, _sort and _order, filters with
\* and without pagination
ListQueries ==
  {Query(p, s, Undefined, NoFilter) :
     p \in {Undefined, Str("1"), Str("2"), Str("3")}, s \in {Undefined, Str("1")}}
  \cup {Query(Str("-1"), Undefined, Undefined, NoFilter), Query(Str("abc"), Str("1"), Undefined, NoFilter),
        Query(Str("1"), Str("-1"), Undefined, NoFilter), Query(Str("2"), Str("abc"), Undefined, NoFilter),
        Query(Str("1"), Str("0"), Undefined, NoFilter), Query(Str("0"), Str("1"), Undefined, NoFilter),
        Query(Undefined, Undefined, Str("1"), NoFilter), Query(Str("2"), Undefined, Str("-1"), NoFilter),
        Query(Str(""), Str(""), Str("1"), NoFilter),
        Query(Undefined, Str(""), Undefined, NoFilter), Query(Undefined, Undefined, Str(""), NoFilter),
        Query(Undefined, Str("2"), Str("1"), NoFilter),
        Sorting(NoQuery, "title", "desc"), Sorting(NoQuery, "title", "asc"),
        Sorting(Query(Str("1"), Str("1"), Undefined, NoFilter), "title", "desc")}
  \cup {Query(p, s, Undefined, f) :
          p \in {Undefined, Str("2")}, s \in {Undefined, Str("1")}, f \in Filters}
ListRequests ==
  ({"posts"} \X ListQueries)
  \cup ({"users"} \X {NoQuery, Query(Str("1"), Undefined, Undefined, NoFilter),
                                Query(Str("2"), Str("1"), Undefined, NoFilter)})

\* the configurations of the server explored: built by createServer or by create, with
\* readOnly, enableApiPrefix, both or none
Builds ==
  {[by |-> f, given |-> [DefaultOptions EXCEPT !.readOnly = r, !.enableApiPrefix = a]] :
     f \in {"createServer", "create"}, r \in BOOLEAN, a \in BOOLEAN}

\* the custom routes registered before start(): with one, two and three path segments,
\* a function handler or a redirect target
CustomRoutes ==
  { [method |-> "GET", path |-> <<"custom-route">>, handler |-> [kind |-> "function", target |-> ""]],
    [method |-> "GET", path |-> <<"posts", "top">>, handler |-> [kind |-> "function", target |-> ""]],
    [method |-> "GET", path |-> <<"users", "1", "posts">>,
     handler |-> [kind |-> "redirect", target |-> "/posts"]],
    [method |-> "POST", path |-> <<"posts", "1", "publish">>,
     handler |-> [kind |-> "function", target |-> ""]] }

RawRequest(m, u, q, b) == [method |-> m, url |-> u, query |-> q, body |-> b]

\* the requests sent to a server with options, each as /<path> and as /api/<path>
UnprefixedRequests ==
  { RawRequest("GET", <<"posts">>, NoQuery, Undefined),
    RawRequest("GET", <<"posts">>, Query(Str("1"), Str("1"), Undefined, NoFilter), Undefined),
    RawRequest("GET", <<"posts", "1">>, NoQuery, Undefined),
    RawRequest("GET", <<"posts", "paginate">>, NoQuery, Undefined),
    RawRequest("GET", <<"db">>, NoQuery, Undefined),
    RawRequest("GET", <<"api">>, NoQuery, Undefined),
    RawRequest("GET", <<"custom-route">>, NoQuery, Undefined),
    RawRequest("GET", <<"posts", "top">>, NoQuery, Undefined),
    RawRequest("GET", <<"users", "1", "posts">>, NoQuery, Undefined),
    RawRequest("GET", <<"posts", "1", "comments">>, NoQuery, Undefined),
    RawRequest("POST", <<"posts", "1", "publish">>, NoQuery, Obj(EmptyProps)),
    RawRequest("POST", <<"posts">>, NoQuery, Obj(EmptyProps)),
    RawRequest("PUT", <<"posts", "1">>, NoQuery, Obj([k \in {"title"} |-> Str("b")])),
    RawRequest("PATCH", <<"posts", "1">>, NoQuery, Obj([k \in {"title"} |-> Str("b")])),
    RawRequest("DELETE", <<"posts", "1">>, NoQuery, Undefined) }
ServerRequests ==
  UnprefixedRequests \cup {[rq EXCEPT !.url = <<"api">> \o rq.url] : rq \in UnprefixedRequests}

\* the requests sent to the server that delays and watches
WatchRequests ==
  { RawRequest("POST", <<"posts">>, NoQuery, Obj(EmptyProps)),
    RawRequest("PUT", <<"posts", "1">>, NoQuery, Obj([k \in {"title"} |-> Str("b")])),
    RawRequest("DELETE", <<"posts", "1">>, NoQuery, Undefined),
    RawRequest("GET", <<"posts", "1">>, NoQuery, Undefined) }

InitialDocs ==
  { [name \in {"posts"} |->
       << Obj([k \in {"id", "title"} |-> IF k = "id" THEN Num("1") ELSE Str("a")]) >>] }
InitialFiles == {JsonFile(d) : d \in InitialDocs}

\* what another program leaves in the database file: half-written JSON, nothing, an empty
\* document, or the original content
ExternalFiles == {CorruptFile, MissingFile, JsonFile(EmptyDb)} \cup InitialFiles

NoReq == [method |-> "", resource |-> "", id |-> "", body |-> Undefined, query |-> NoQuery]
\* no header set besides the ones express sets by itself
NoHeaders == [h \in {} |-> ""]
NoResp == [status |-> 0, error |-> "", body |-> Undefined, headers |-> NoHeaders]
Request(m, r, i, b) == [method |-> m, resource |-> r, id |-> i, body |-> b, query |-> NoQuery]
QueryRequest(m, r, i, q) == [method |-> m, resource |-> r, id |-> i, body |-> Undefined, query |-> q]
Response(s, e, b) == [status |-> s, error |-> e, body |-> b, headers |-> NoHeaders]

(***************************************************************************)
(* Helpers of the handlers.                                                *)
(***************************************************************************)
\* !this.db[resource]
HasResource(d, r) == r \in DOMAIN d

\* this.db[resource] || []
Collection(d, r) == IF HasResource(d, r) THEN d[r] ELSE <<>>

\* findIndex((item) => item[idField] === id): no String() around the stored id
FindIndexStrict(coll, id) ==
  LET hits == {i \in 1..Len(coll) : Get(coll[i], idField) = Str(id)}
  IN IF hits = {} THEN 0 ELSE CHOOSE i \in hits : \A j \in hits : i <= j

\* findIndex((item) => String(item[idField]) === String(id)); 0 stands for -1
FindIndex(coll, id) ==
  LET hits == {i \in 1..Len(coll) : String(Get(coll[i], idField)) = id}
  IN IF hits = {} THEN 0 ELSE CHOOSE i \in hits : \A j \in hits : i <= j

\* !body || typeof body !== 'object'
NotAnObject(body) == Falsy(body) \/ TypeOf(body) # "object"

TotalItems(d) ==
  LET RECURSIVE Sum(_)
      Sum(S) == IF S = {} THEN 0
                ELSE LET x == CHOOSE x \in S : TRUE IN Len(d[x]) + Sum(S \ {x})
  IN Sum(DOMAIN d)

\* saveDatabase with a saveJsonFile that logs a write error instead of rethrowing it
SaveOutcomesSwallowingErrors(d) ==
  IF dbPath = ""
  THEN {[ok |-> FALSE, file |-> file]}
  ELSE IF disk = "failing"
  THEN {[ok |-> TRUE, file |-> file]}
  ELSE {[ok |-> TRUE, file |-> JsonFile(Stringify(d))]}

\* saveDatabase that starts the write and returns: the file is written after the answer
SaveOutcomesDeferringWrite(d) ==
  IF dbPath = ""
  THEN {[ok |-> FALSE, file |-> file]}
  ELSE {[ok |-> TRUE, file |-> file]}

\* saveDatabase: the outcomes of one call with database d
SaveOutcomes(d) ==
  IF dbPath = ""
  THEN {[ok |-> FALSE, file |-> file]}
  ELSE IF disk = "failing"
  THEN {[ok |-> FALSE, file |-> file]}
  ELSE {[ok |-> TRUE, file |-> JsonFile(Stringify(d))]}

\* db with collection r set to coll
WithCollection(d, r, coll) ==
  [name \in (DOMAIN d) \cup {r} |-> IF name = r THEN coll ELSE d[name]]

SaveFailed == Response(500, "Failed to save database", Undefined)
InvalidBody == Response(400, "Invalid request body", Undefined)
ResourceNotFound == Response(404, "Resource not found", Undefined)
ItemNotFound == Response(404, "Item not found", Undefined)

(***************************************************************************)
(* Operations.                                                             *)
(***************************************************************************)
Init ==
  /\ db = EmptyDb
  /\ dbPath = ""
  /\ file \in InitialFiles
  /\ disk \in {"ok", "failing"}
  /\ now = Epoch
  /\ req = NoReq
  /\ resp = NoResp
  /\ built = [by |-> "createServer", given |-> DefaultOptions]
  /\ options = createServer(DefaultOptions)
  /\ routes = NoRoutes
  /\ url = NoUrl
  /\ pending = {}
  /\ watcher = "off"

\* loadDatabase(dbPath), followed by loadJsonFile
LoadDatabase ==
  /\ dbPath' = DbFilePath
  /\ db' = IF file.state = "missing" THEN db
           ELSE IF file.state = "json" THEN file.doc
           ELSE EmptyDb
  /\ req' = NoReq
  /\ resp' = NoResp
  /\ UNCHANGED <<file, disk, now>>

\* the clock advances by one millisecond
Tick ==
  /\ now + 1 \in Clock
  /\ now' = now + 1
  /\ req' = NoReq
  /\ resp' = NoResp
  /\ UNCHANGED <<db, dbPath, file, disk>>

\* POST /:resource
Post(resource, body) ==
  /\ req = NoReq
  /\ req' = Request("POST", resource, "", body)
  /\ UNCHANGED <<dbPath, disk, now>>
  /\ IF NotAnObject(body)
     THEN /\ resp' = InvalidBody
          /\ UNCHANGED <<db, file>>
     ELSE /\ TotalItems(db) < MaxItems
          /\ LET newItem == IF Falsy(Get(body, idField))
                            THEN Put(body, idField, Str(DateNowString(now)))
                            ELSE body
                 db2 == WithCollection(db, resource, Append(Collection(db, resource), newItem))
             IN /\ db' = db2
                /\ \E o \in SaveOutcomes(db2) :
                     /\ file' = o.file
                     /\ resp' = IF o.ok THEN Response(201, "", ToJSON(newItem)) ELSE SaveFailed

\* PUT that keeps the id sent in the body
ReplacedKeepingBodyId(old, body) ==
  IF idField \in DOMAIN body.f THEN body ELSE Put(body, idField, Get(old, idField))

\* PUT: updateData[idField] = old[idField]; the body replaces the record
Replaced(old, body) == Put(body, idField, Get(old, idField))

\* PATCH that merges without putting the id back
MergedKeepingBodyId(old, body) == Spread(old, body)

\* PATCH: { ...old, ...updateData } with the id of old
Merged(old, body) == Put(Spread(old, body), idField, Get(old, idField))

\* PUT that creates a missing collection before it answers 404, as POST does
PutItemCreatingCollection(resource, id, body) ==
  /\ req = NoReq
  /\ req' = Request("PUT", resource, id, body)
  /\ UNCHANGED <<dbPath, disk, now>>
  /\ IF NotAnObject(body)
     THEN /\ resp' = InvalidBody
          /\ UNCHANGED <<db, file>>
     ELSE IF ~HasResource(db, resource)
     THEN /\ resp' = ResourceNotFound
          /\ db' = WithCollection(db, resource, <<>>)
          /\ UNCHANGED file
     ELSE LET index == FindIndex(db[resource], id) IN
          IF index = 0
          THEN /\ resp' = ItemNotFound
               /\ UNCHANGED <<db, file>>
          ELSE LET updated == Replaced(db[resource][index], body)
                   db2 == [db EXCEPT ![resource][index] = updated]
               IN /\ db' = db2
                  /\ \E o \in SaveOutcomes(db2) :
                       /\ file' = o.file
                       /\ resp' = IF o.ok THEN Response(200, "", ToJSON(updated))
                                  ELSE SaveFailed

\* PUT /:resource/:id
PutItem(resource, id, body) ==
  /\ req = NoReq
  /\ req' = Request("PUT", resource, id, body)
  /\ UNCHANGED <<dbPath, disk, now>>
  /\ IF NotAnObject(body)
     THEN /\ resp' = InvalidBody
          /\ UNCHANGED <<db, file>>
     ELSE IF ~HasResource(db, resource)
     THEN /\ resp' = ResourceNotFound
          /\ UNCHANGED <<db, file>>
     ELSE LET index == FindIndex(db[resource], id) IN
          IF index = 0
          THEN /\ resp' = ItemNotFound
               /\ UNCHANGED <<db, file>>
          ELSE LET updated == Replaced(db[resource][index], body)
                   db2 == [db EXCEPT ![resource][index] = updated]
               IN /\ db' = db2
                  /\ \E o \in SaveOutcomes(db2) :
                       /\ file' = o.file
                       /\ resp' = IF o.ok THEN Response(200, "", ToJSON(updated))
                                  ELSE SaveFailed

\* PATCH /:resource/:id
PatchItem(resource, id, body) ==
  /\ req = NoReq
  /\ req' = Request("PATCH", resource, id, body)
  /\ UNCHANGED <<dbPath, disk, now>>
  /\ IF NotAnObject(body)
     THEN /\ resp' = InvalidBody
          /\ UNCHANGED <<db, file>>
     ELSE IF ~HasResource(db, resource)
     THEN /\ resp' = ResourceNotFound
          /\ UNCHANGED <<db, file>>
     ELSE LET index == FindIndex(db[resource], id) IN
          IF index = 0
          THEN /\ resp' = ItemNotFound
               /\ UNCHANGED <<db, file>>
          ELSE LET updated == Merged(db[resource][index], body)
                   db2 == [db EXCEPT ![resource][index] = updated]
               IN /\ db' = db2
                  /\ \E o \in SaveOutcomes(db2) :
                       /\ file' = o.file
                       /\ resp' = IF o.ok THEN Response(200, "", ToJSON(updated))
                                  ELSE SaveFailed

\* pop(): the last record goes, whatever the index
SpliceDroppingLast(coll, index) == [i \in 1..(Len(coll) - 1) |-> coll[i]]

\* splice(index, 1)
Splice(coll, index) == [i \in 1..(Len(coll) - 1) |-> IF i < index THEN coll[i] ELSE coll[i + 1]]

\* DELETE that puts the record back when the save fails
DeleteItemRollingBack(resource, id) ==
  /\ req = NoReq
  /\ req' = Request("DELETE", resource, id, Undefined)
  /\ UNCHANGED <<dbPath, disk, now>>
  /\ IF ~HasResource(db, resource)
     THEN /\ resp' = ResourceNotFound
          /\ UNCHANGED <<db, file>>
     ELSE LET index == FindIndex(db[resource], id) IN
          IF index = 0
          THEN /\ resp' = ItemNotFound
               /\ UNCHANGED <<db, file>>
          ELSE LET deletedItem == db[resource][index]
                   db2 == [db EXCEPT ![resource] = Splice(db[resource], index)]
               IN /\ \E o \in SaveOutcomes(db2) :
                       /\ db' = IF o.ok THEN db2 ELSE db
                       /\ file' = o.file
                       /\ resp' = IF o.ok THEN Response(200, "", ToJSON(deletedItem))
                                  ELSE SaveFailed

\* DELETE /:resource/:id
DeleteItem(resource, id) ==
  /\ req = NoReq
  /\ req' = Request("DELETE", resource, id, Undefined)
  /\ UNCHANGED <<dbPath, disk, now>>
  /\ IF ~HasResource(db, resource)
     THEN /\ resp' = ResourceNotFound
          /\ UNCHANGED <<db, file>>
     ELSE LET index == FindIndex(db[resource], id) IN
          IF index = 0
          THEN /\ resp' = ItemNotFound
               /\ UNCHANGED <<db, file>>
          ELSE LET deletedItem == db[resource][index]
                   db2 == [db EXCEPT ![resource] = Splice(db[resource], index)]
               IN /\ db' = db2
                  /\ \E o \in SaveOutcomes(db2) :
                       /\ file' = o.file
                       /\ resp' = IF o.ok THEN Response(200, "", ToJSON(deletedItem))
                                  ELSE SaveFailed

\* GET /:resource/:id
GetItem(resource, id) ==
  /\ req = NoReq
  /\ id # "paginate"
  /\ req' = Request("GET", resource, id, Undefined)
  /\ UNCHANGED <<db, dbPath, file, disk, now>>
  /\ IF ~HasResource(db, resource)
     THEN resp' = ResourceNotFound
     ELSE LET index == FindIndex(db[resource], id) IN
          IF index = 0
          THEN resp' = ItemNotFound
          ELSE resp' = Response(200, "", ToJSON(db[resource][index]))

\* parseInt of the explored query values; NaN is [nan |-> TRUE]
NaN == [nan |-> TRUE, n |-> 0]
Number(n) == [nan |-> FALSE, n |-> n]
IntLiterals == [s \in {"-1", "0", "1", "2", "3"} |->
                  CASE s = "-1" -> 0 - 1 [] s = "0" -> 0 [] s = "1" -> 1
                    [] s = "2" -> 2 [] s = "3" -> 3]
ParseInt(x) ==
  IF x.t \in {"string", "number"} /\ x.v \in DOMAIN IntLiterals
  THEN Number(IntLiterals[x.v]) ELSE NaN

\* parseInt(x) || d
ParseIntOr(x, d) ==
  LET p == ParseInt(x) IN IF p.nan \/ p.n = 0 THEN d ELSE p.n

\* Math.max(1, n || d) for a number n
AtLeastOneOr(n, d) == IF n = 0 THEN d ELSE IF n < 1 THEN 1 ELSE n

\* Math.ceil(a / b) for a >= 0, b >= 1
CeilDiv(a, b) == (a + b - 1) \div b

\* collection.slice(start, end) with 0-based start, exclusive end
Slice(coll, start, end) ==
  LET n == IF end > start THEN end - start ELSE 0
  IN [i \in 1..n |-> coll[start + i]]

\* the body of a pagination answer; prev and next are 0 where the code answers null
PageBody(data, prev, next, last, pages, items) ==
  [t |-> "page", data |-> data, first |-> 1, prev |-> prev, next |-> next,
   last |-> last, pages |-> pages, items |-> items]

\* getPaginatedResource that replaces a size below 1 by the default instead of 1
getPaginatedResourceDefaultingSize(d, resourceName, pageArg, pageSizeArg) ==
  IF ~HasResource(d, resourceName)
  THEN PageBody(<<>>, 0, 0, 1, 1, 0)
  ELSE LET collection == d[resourceName]
           totalItems == Len(collection)
           page == AtLeastOneOr(pageArg, 1)
           pageSize == IF pageSizeArg < 1 THEN 10 ELSE pageSizeArg
           start == (page - 1) * pageSize
           end == IF start + pageSize < totalItems THEN start + pageSize ELSE totalItems
           totalPages == CeilDiv(totalItems, pageSize)
           orOne == IF totalPages = 0 THEN 1 ELSE totalPages
       IN PageBody([i \in 1..Len(Slice(collection, start, end)) |->
                      ToJSON(Slice(collection, start, end)[i])],
                   IF page > 1 THEN page - 1 ELSE 0,
                   IF page < totalPages THEN page + 1 ELSE 0,
                   orOne, orOne, totalItems)

\* createPaginationMetadata + data
getPaginatedResource(d, resourceName, pageArg, pageSizeArg) ==
  IF ~HasResource(d, resourceName)
  THEN PageBody(<<>>, 0, 0, 1, 1, 0)
  ELSE LET collection == d[resourceName]
           totalItems == Len(collection)
           page == AtLeastOneOr(pageArg, 1)
           pageSize == AtLeastOneOr(pageSizeArg, 10)
           start == (page - 1) * pageSize
           end == IF start + pageSize < totalItems THEN start + pageSize ELSE totalItems
           totalPages == CeilDiv(totalItems, pageSize)
           orOne == IF totalPages = 0 THEN 1 ELSE totalPages
       IN PageBody([i \in 1..Len(Slice(collection, start, end)) |->
                      ToJSON(Slice(collection, start, end)[i])],
                   IF page > 1 THEN page - 1 ELSE 0,
                   IF page < totalPages THEN page + 1 ELSE 0,
                   orOne, orOne, totalItems)

\* what GET /:resource/paginate?_page=pageParam&_limit=limitParam answers on database d
PaginateAnswer(d, resource, pageParam, limitParam) ==
  getPaginatedResource(d, resource, ParseIntOr(pageParam, 1), ParseIntOr(limitParam, 10))

\* GET /:resource/paginate, registered before GET /:resource/:id
GetPaginated(resource, query) ==
  /\ req = NoReq
  /\ req' = QueryRequest("GET", resource, "paginate", query)
  /\ UNCHANGED <<db, dbPath, file, disk, now>>
  /\ resp' = Response(200, "", PaginateAnswer(db, resource, query.page, query.limit))

\* a || b
Or(a, b) == IF Falsy(a) THEN b ELSE a

\* Math.max(a, b)
Max(a, b) == IF a > b THEN a ELSE b

\* Math.min(a, b)
Min(a, b) == IF a < b THEN a ELSE b

\* param ? Math.max(1, parseInt(param) || d) : d
ParamOr(param, d) == IF Falsy(param) THEN d ELSE Max(1, ParseIntOr(param, d))

\* every non-underscore query parameter equals the item's field, both through String()
PassesFilter(item, filter) ==
  \A k \in DOMAIN filter : String(Get(item, k)) = String(filter[k])

\* resourceData.filter(...)
Filtered(coll, filter) == SelectSeq(coll, LAMBDA item : PassesFilter(item, filter))

\* res.json of a list of records
JsonList(items) == [i \in 1..Len(items) |-> ToJSON(items[i])]

\* getPaginatedData whose window starts one page late
getPaginatedDataShifted(collection, pageArg, perPageArg) ==
  LET page == AtLeastOneOr(pageArg, 1)
      perPage == AtLeastOneOr(perPageArg, 10)
      total == Len(collection)
      totalPages == CeilDiv(total, perPage)
      start == page * perPage
      end == Min(start + perPage, total)
      orOne == IF totalPages = 0 THEN 1 ELSE totalPages
  IN PageBody(JsonList(Slice(collection, start, end)),
              IF page > 1 THEN page - 1 ELSE 0,
              IF page < totalPages THEN page + 1 ELSE 0,
              orOne, orOne, total)

\* getPaginatedData whose prev never points past the last page
getPaginatedDataClampingPrev(collection, pageArg, perPageArg) ==
  LET page == AtLeastOneOr(pageArg, 1)
      perPage == AtLeastOneOr(perPageArg, 10)
      total == Len(collection)
      totalPages == CeilDiv(total, perPage)
      start == (page - 1) * perPage
      end == Min(start + perPage, total)
      orOne == IF totalPages = 0 THEN 1 ELSE totalPages
  IN PageBody(JsonList(Slice(collection, start, end)),
              IF page > 1 THEN Min(page - 1, orOne) ELSE 0,
              IF page < totalPages THEN page + 1 ELSE 0,
              orOne, orOne, total)

\* getPaginatedData without the "|| 1" on last and pages
getPaginatedDataZeroPages(collection, pageArg, perPageArg) ==
  LET page == AtLeastOneOr(pageArg, 1)
      perPage == AtLeastOneOr(perPageArg, 10)
      total == Len(collection)
      totalPages == CeilDiv(total, perPage)
      start == (page - 1) * perPage
      end == Min(start + perPage, total)
  IN PageBody(JsonList(Slice(collection, start, end)),
              IF page > 1 THEN page - 1 ELSE 0,
              IF page < totalPages THEN page + 1 ELSE 0,
              totalPages, totalPages, total)

\* getPaginatedData(collection, page, perPage)
getPaginatedData(collection, pageArg, perPageArg) ==
  LET page == AtLeastOneOr(pageArg, 1)
      perPage == AtLeastOneOr(perPageArg, 10)
      total == Len(collection)
      totalPages == CeilDiv(total, perPage)
      start == (page - 1) * perPage
      end == Min(start + perPage, total)
      orOne == IF totalPages = 0 THEN 1 ELSE totalPages
  IN PageBody(JsonList(Slice(collection, start, end)),
              IF page > 1 THEN page - 1 ELSE 0,
              IF page < totalPages THEN page + 1 ELSE 0,
              orOne, orOne, total)

\* the body of a listing without pagination: the filtered records as a raw array
ListBody(items) == [t |-> "list", data |-> JsonList(items)]

\* X-Total-Count, X-Total-Pages and Access-Control-Expose-Headers of a paginated listing
PaginationHeaders(page) ==
  [h \in {"X-Total-Count", "X-Total-Pages", "Access-Control-Expose-Headers"} |->
     CASE h = "X-Total-Count" -> ToString(page.items)
       [] h = "X-Total-Pages" -> ToString(page.pages)
       [] OTHER -> "X-Total-Count, X-Total-Pages"]

\* GET /:resource that creates the collection it does not find
GetListCreatingCollection(resource, query) ==
  /\ req = NoReq
  /\ req' = QueryRequest("GET", resource, "", query)
  /\ db' = WithCollection(db, resource, Collection(db, resource))
  /\ UNCHANGED <<dbPath, file, disk, now>>
  /\ LET resourceData == Collection(db, resource)
         filteredData == Filtered(resourceData, query.filter)
         pageParam == query.page
         perPageParam == Or(query.per_page, query.limit)
     IN IF pageParam # Undefined \/ perPageParam # Undefined
        THEN LET paginatedResult ==
                   getPaginatedData(filteredData, ParamOr(pageParam, 1), ParamOr(perPageParam, 10))
             IN resp' = [Response(200, "", paginatedResult)
                           EXCEPT !.headers = PaginationHeaders(paginatedResult)]
        ELSE resp' = Response(200, "", ListBody(filteredData))

\* GET /:resource that cuts the page first and filters the page afterwards
GetListPaginatingFirst(resource, query) ==
  /\ req = NoReq
  /\ req' = QueryRequest("GET", resource, "", query)
  /\ UNCHANGED <<db, dbPath, file, disk, now>>
  /\ LET resourceData == Collection(db, resource)
         pageParam == query.page
         perPageParam == Or(query.per_page, query.limit)
     IN IF pageParam # Undefined \/ perPageParam # Undefined
        THEN LET whole == getPaginatedData(resourceData, ParamOr(pageParam, 1),
                                           ParamOr(perPageParam, 10))
                 start == (AtLeastOneOr(ParamOr(pageParam, 1), 1) - 1)
                            * AtLeastOneOr(ParamOr(perPageParam, 10), 10)
                 window == Slice(resourceData, start, start + Len(whole.data))
                 paginatedResult ==
                   [whole EXCEPT !.data = JsonList(Filtered(window, query.filter))]
             IN resp' = [Response(200, "", paginatedResult)
                           EXCEPT !.headers = PaginationHeaders(paginatedResult)]
        ELSE resp' = Response(200, "", ListBody(Filtered(resourceData, query.filter)))

\* GET /:resource
GetList(resource, query) ==
  /\ req = NoReq
  /\ req' = QueryRequest("GET", resource, "", query)
  /\ UNCHANGED <<db, dbPath, file, disk, now>>
  /\ LET resourceData == Collection(db, resource)
         filteredData == Filtered(resourceData, query.filter)
         pageParam == query.page
         perPageParam == Or(query.per_page, query.limit)
     IN IF pageParam # Undefined \/ perPageParam # Undefined
        THEN LET paginatedResult ==
                   getPaginatedData(filteredData, ParamOr(pageParam, 1), ParamOr(perPageParam, 10))
             IN resp' = [Response(200, "", paginatedResult)
                           EXCEPT !.headers = PaginationHeaders(paginatedResult)]
        ELSE resp' = Response(200, "", ListBody(filteredData))

\* the body of GET /db: the whole database
DbBody(d) == [t |-> "db", data |-> Stringify(d)]

\* GET /db
GetDb ==
  /\ req = NoReq
  /\ req' = Request("GET", "db", "", Undefined)
  /\ UNCHANGED <<db, dbPath, file, disk, now>>
  /\ resp' = Response(200, "", DbBody(db))

\* the response has been written; the event loop takes the next event
Done ==
  /\ req # NoReq
  /\ req' = NoReq
  /\ resp' = NoResp
  /\ UNCHANGED <<db, dbPath, file, disk, now>>

(***************************************************************************)
(* The middleware chain of setupMiddlewares and the routes of start().     *)
(***************************************************************************)
\* a list of the methods that modify data without PATCH
WRITE_METHODSWithoutPatch == {"POST", "PUT", "DELETE"}

WRITE_METHODS == {"POST", "PUT", "PATCH", "DELETE"}

\* a middleware that removes the first segment of every path, /api or not
apiPrefixMiddlewareAnySegment(u) == IF Len(u) >= 2 THEN Tail(u) ELSE u

\* apiPrefixMiddleware: a path that starts with /api/ loses the prefix, any other is kept
apiPrefixMiddleware(u) == IF Len(u) >= 2 /\ u[1] = "api" THEN Tail(u) ELSE u

\* req.url as the routes see it under options o
Rewritten(o, u) == IF o.enableApiPrefix THEN apiPrefixMiddleware(u) ELSE u

\* readOnlyMiddleware answers 403 instead of calling next()
Forbidden(m, path, body) ==
  /\ req = NoReq
  /\ req' = Request(m, "", "", body)
  /\ resp' = Response(403, "Forbidden", [t |-> "error", method |-> m, path |-> path])
  /\ UNCHANGED <<db, dbPath, file, disk, now>>

\* the answer of a custom route: its own handler's, or a redirect to its target
CustomAnswer(route) ==
  IF route.handler.kind = "redirect"
  THEN [Response(302, "", [t |-> "redirect", path |-> route.path])
          EXCEPT !.headers = [h \in {"Location"} |-> route.handler.target]]
  ELSE Response(200, "", [t |-> "custom", path |-> route.path])

\* the custom routes registered for method m and this path
Registered(m, path) == {r \in routes : r.method = m /\ r.path = path}

\* a route registered by applyCustomRoutes
CustomRoute(m, path, body) ==
  /\ req = NoReq
  /\ req' = Request(m, "", "", body)
  /\ resp' = CustomAnswer(CHOOSE r \in Registered(m, path) : TRUE)
  /\ UNCHANGED <<db, dbPath, file, disk, now>>

\* the 404 handler registered after every route
NotFound(m, path, body) ==
  /\ req = NoReq
  /\ req' = Request(m, "", "", body)
  /\ resp' = Response(404, "Not found", [t |-> "error", method |-> m, path |-> path])
  /\ UNCHANGED <<db, dbPath, file, disk, now>>

\* express takes the first registered route that matches: the generic routes of
\* createResourceRoutes, then the custom routes, then the 404 handler
Route(m, path, query, body) ==
  IF m = "GET" /\ path = <<"db">> THEN GetDb
  ELSE IF m = "GET" /\ Len(path) = 2 /\ path[2] = "paginate" THEN GetPaginated(path[1], query)
  ELSE IF m = "GET" /\ Len(path) = 1 THEN GetList(path[1], query)
  ELSE IF m = "GET" /\ Len(path) = 2 THEN GetItem(path[1], path[2])
  ELSE IF m = "POST" /\ Len(path) = 1 THEN Post(path[1], body)
  ELSE IF m = "PUT" /\ Len(path) = 2 THEN PutItem(path[1], path[2], body)
  ELSE IF m = "PATCH" /\ Len(path) = 2 THEN PatchItem(path[1], path[2], body)
  ELSE IF m = "DELETE" /\ Len(path) = 2 THEN DeleteItem(path[1], path[2])
  ELSE IF Registered(m, path) # {} THEN CustomRoute(m, path, body)
  ELSE NotFound(m, path, body)

\* one request through apiPrefixMiddleware, readOnlyMiddleware and the routes, on a
\* server with options o
Through(o, rq) ==
  LET path == Rewritten(o, rq.url)
  IN IF o.readOnly /\ rq.method \in WRITE_METHODS
     THEN Forbidden(rq.method, path, rq.body)
     ELSE Route(rq.method, path, rq.query, rq.body)

\* a request on a server without delay
Serve(rq) ==
  /\ options.delay = 0
  /\ url' = rq.url
  /\ Through(options, rq)
  /\ UNCHANGED <<built, options, routes, pending, watcher>>

\* delayMiddleware: pause(delay) holds the request before it calls next()
Hold(rq) ==
  /\ options.delay > 0
  /\ req = NoReq
  /\ rq \notin pending
  /\ Cardinality(pending) < MaxPending
  /\ pending' = pending \cup {rq}
  /\ UNCHANGED <<db, dbPath, file, disk, now, req, resp, built, options, routes, url, watcher>>

\* the pause of a held request ends: next() hands it to readOnlyMiddleware and the routes;
\* fs.watch reports a change of the database file when the handler has written it
Release(rq) ==
  /\ rq \in pending
  /\ pending' = pending \ {rq}
  /\ url' = rq.url
  /\ Through(options, rq)
  /\ watcher' = IF watcher # "off" /\ file' # file THEN "change" ELSE watcher
  /\ UNCHANGED <<built, options, routes>>

\* another program rewrites, truncates or removes the database file; fs.watch reports
\* 'change' for new content and 'rename' for a removal
FileChanged(f) ==
  /\ req = NoReq
  /\ watcher # "off"
  /\ f # file
  /\ file' = f
  /\ watcher' = IF f.state = "missing" THEN watcher ELSE "change"
  /\ UNCHANGED <<db, dbPath, disk, now, req, resp, built, options, routes, url, pending>>

\* setupFileWatcher: on 'change' loadDatabase runs inside try/catch and the outcome is logged
Reload ==
  /\ watcher = "change"
  /\ LoadDatabase
  /\ watcher' = IF file.state = "missing" THEN "error" ELSE "reloaded"
  /\ url' = NoUrl
  /\ UNCHANGED <<built, options, routes, pending>>

Next ==
  \/ Done /\ UNCHANGED server
  \/ LoadDatabase /\ UNCHANGED server
  \/ Tick /\ UNCHANGED server
  \/ \E q \in PostRequests : Post(q[1], q[2]) /\ UNCHANGED server
  \/ \E q \in UpdateRequests : PutItem(q[1], q[2], q[3]) /\ UNCHANGED server
  \/ \E q \in UpdateRequests : PatchItem(q[1], q[2], q[3]) /\ UNCHANGED server
  \/ \E q \in ItemRequests : DeleteItem(q[1], q[2]) /\ UNCHANGED server
  \/ \E q \in ItemRequests : GetItem(q[1], q[2]) /\ UNCHANGED server
  \/ \E r \in Resources, q \in PaginateQueries : GetPaginated(r, q) /\ UNCHANGED server
  \/ \E q \in ListRequests : GetList(q[1], q[2]) /\ UNCHANGED server
  \/ GetDb /\ UNCHANGED server

Spec == Init /\ [][Next]_vars

(***************************************************************************)
(* Servers built with options and custom routes: every request goes        *)
(* through the middleware chain.                                           *)
(***************************************************************************)
\* the server is built by one of the factories and its routes are registered before start()
Built(b) ==
  /\ built = b
  /\ options = IF b.by = "create" THEN create(b.given) ELSE createServer(b.given)

InitServer ==
  /\ db = EmptyDb
  /\ dbPath = ""
  /\ file \in InitialFiles
  /\ disk = "ok"
  /\ now = Epoch
  /\ req = NoReq
  /\ resp = NoResp
  /\ \E b \in Builds : Built(b)
  /\ routes = CustomRoutes
  /\ url = NoUrl
  /\ pending = {}
  /\ watcher = "off"

NextServer ==
  \/ Done /\ url' = NoUrl /\ UNCHANGED <<built, options, routes, pending, watcher>>
  \/ LoadDatabase /\ UNCHANGED server
  \/ \E rq \in ServerRequests : Serve(rq)

ServerSpec == InitServer /\ [][NextServer]_vars

(***************************************************************************)
(* The command line server started with --watch and --delay: requests are  *)
(* held by the delay middleware while others are handled and while the     *)
(* file watcher reloads the database.                                      *)
(***************************************************************************)
\* the state after the command line has run loadDatabase(source), start() and
\* setupFileWatcher
InitWatch ==
  /\ \E d \in InitialDocs : db = d /\ file = JsonFile(d)
  /\ dbPath = DbFilePath
  /\ disk \in {"ok", "failing"}
  /\ now = Epoch
  /\ req = NoReq
  /\ resp = NoResp
  /\ Built([by |-> "createServer", given |-> [DefaultOptions EXCEPT !.delay = 1000]])
  /\ routes = NoRoutes
  /\ url = NoUrl
  /\ pending = {}
  /\ watcher = "watching"

NextWatch ==
  \/ Done /\ url' = NoUrl /\ UNCHANGED <<built, options, routes, pending, watcher>>
  \/ \E f \in ExternalFiles : FileChanged(f)
  \/ Reload
  \/ \E rq \in WatchRequests : Hold(rq)
  \/ \E rq \in WatchRequests : Release(rq)

WatchSpec == InitWatch /\ [][NextWatch]_vars

(***************************************************************************)
(* Vocabulary of the properties.                                           *)
(***************************************************************************)
WriteMethods == {"POST", "PUT", "PATCH", "DELETE"}

\* the string form of a record's id field
IdString(item) == String(Get(item, idField))

\* the positions of collection coll whose record has id string id
Matches(coll, id) == {i \in 1..Len(coll) : IdString(coll[i]) = id}

\* a handler has just answered a request of method m
Answered(m) == req.method = m

\* GET /:resource/:id or GET /:resource/paginate has just answered: the path has a second segment
AnsweredItemGet == req.method = "GET" /\ req.id # ""

\* the step is the handling of one request of a method in ms
Handles(ms) == req = NoReq /\ req'.method \in ms

\* new is exactly the fields of body, with the id of old
ReplacedBy(old, body, new) ==
  /\ DOMAIN new.f = (DOMAIN body.f) \cup {idField}
  /\ \A k \in DOMAIN body.f : k # idField => new.f[k] = body.f[k]
  /\ new.f[idField] = Get(old, idField)

\* new is old overridden field by field by body, with the id of old
MergedInto(old, body, new) ==
  /\ DOMAIN new.f = (DOMAIN old.f) \cup (DOMAIN body.f) \cup {idField}
  /\ \A k \in DOMAIN new.f :
       new.f[k] = IF k = idField THEN Get(old, idField)
                  ELSE IF k \in DOMAIN body.f THEN body.f[k] ELSE old.f[k]

\* coll2 is coll with one record carrying the fields of body appended
AppendedTo(coll, body, coll2) ==
  /\ Len(coll2) = Len(coll) + 1
  /\ \A j \in 1..Len(coll) : coll2[j] = coll[j]
  /\ \A k \in DOMAIN body.f : k # idField => Get(coll2[Len(coll2)], k) = body.f[k]
  /\ ~Falsy(Get(coll2[Len(coll2)], idField))

\* coll2 is coll without its record at position ix
RemovedFrom(coll, ix, coll2) ==
  /\ Len(coll2) = Len(coll) - 1
  /\ \A j \in 1..Len(coll2) : coll2[j] = IF j < ix THEN coll[j] ELSE coll[j + 1]

(***************************************************************************)
(* C1.  No collection ever holds two records whose id-field values have    *)
(* the same string form, after any sequence of POST, PUT, PATCH and DELETE *)
(* requests on a database loaded with unique ids.                          *)
(***************************************************************************)
UniqueIds ==
  \A r \in DOMAIN db : \A i, j \in 1..Len(db[r]) :
    i # j => IdString(db[r][i]) # IdString(db[r][j])

(***************************************************************************)
(* C2.  Whenever a POST, PUT, PATCH or DELETE has just answered 201 or     *)
(* 200, the backing file holds the serialization of the whole in-memory    *)
(* database: the write happened before the answer.                         *)
(***************************************************************************)
SavedBeforeSuccess ==
  (req.method \in WriteMethods /\ resp.status \in {200, 201})
    => file = JsonFile(Stringify(db))

SavedBeforeSuccessWitness ==
  /\ Answered("PATCH")
  /\ resp.status = 200
  /\ file = JsonFile(Stringify(db))
  /\ TotalItems(db) = 2

(***************************************************************************)
(* C3.  A POST, PUT, PATCH or DELETE whose save fails (I/O error or no     *)
(* database path) answers 500 with the structured save error, and the      *)
(* mutation stays in memory: the record is appended, replaced, merged or   *)
(* removed all the same.                                                   *)
(***************************************************************************)
MutationApplied(q, d, d2) ==
  LET r == q.resource
      coll == Collection(d, r)
      ix == FindIndex(coll, q.id)
  IN /\ HasResource(d2, r)
     /\ \A other \in DOMAIN d : other # r => other \in DOMAIN d2 /\ d2[other] = d[other]
     /\ CASE q.method = "POST" -> AppendedTo(coll, q.body, d2[r])
          [] q.method = "PUT" ->
               /\ ix # 0 /\ Len(d2[r]) = Len(coll)
               /\ ReplacedBy(coll[ix], q.body, d2[r][ix])
          [] q.method = "PATCH" ->
               /\ ix # 0 /\ Len(d2[r]) = Len(coll)
               /\ MergedInto(coll[ix], q.body, d2[r][ix])
          [] q.method = "DELETE" -> ix # 0 /\ RemovedFrom(coll, ix, d2[r])

SaveAttempted(q, d) ==
  /\ q.method \in WriteMethods
  /\ q.method # "DELETE" => ~NotAnObject(q.body)
  /\ q.method # "POST" => FindIndex(Collection(d, q.resource), q.id) # 0

FailedSaveKeepsMutation ==
  [][ Handles(WriteMethods) =>
        /\ resp'.status = 500 =>
             resp'.error = "Failed to save database" /\ MutationApplied(req', db, db')
        /\ (SaveAttempted(req', db) /\ (dbPath = "" \/ disk = "failing")) =>
             resp'.status = 500 ]_vars

FailedSaveKeepsMutationWitness ==
  /\ Answered("DELETE")
  /\ resp.status = 500
  /\ resp.error = "Failed to save database"
  /\ dbPath # ""
  /\ HasResource(db, req.resource)
  /\ Matches(db[req.resource], req.id) = {}
  /\ file.state = "json"
  /\ HasResource(file.doc, req.resource)
  /\ Matches(file.doc[req.resource], req.id) # {}

(***************************************************************************)
(* C4.  A PUT, PATCH or DELETE that answers 400 or 404 leaves every        *)
(* collection unchanged, creates no collection and does not write the      *)
(* backing file.                                                           *)
(***************************************************************************)
RejectedUpdateChangesNothing ==
  [][ (Handles({"PUT", "PATCH", "DELETE"}) /\ resp'.status \in {400, 404})
        => (db' = db /\ DOMAIN db' = DOMAIN db /\ file' = file) ]_vars

RejectedUpdateChangesNothingWitness ==
  /\ Answered("PUT")
  /\ resp.status = 404
  /\ resp.error = "Resource not found"
  /\ ~HasResource(db, req.resource)
  /\ TotalItems(db) > 0

(***************************************************************************)
(* C5.  After a PUT with an object body that answers 200, the stored       *)
(* record is exactly the fields of the body, except that its id is the id  *)
(* of the record it replaces; the response body is the stored record.      *)
(***************************************************************************)
PutReplacesRecord ==
  [][ (Handles({"PUT"}) /\ resp'.status = 200 /\ req'.body.t = "object") =>
        LET r == req'.resource
            ix == FindIndex(Collection(db, r), req'.id)
        IN /\ ix # 0
           /\ ReplacedBy(db[r][ix], req'.body, db'[r][ix])
           /\ resp'.body = db'[r][ix] ]_vars

PutReplacesRecordWitness ==
  /\ Answered("PUT")
  /\ resp.status = 200
  /\ Get(req.body, idField) = Str("2")
  /\ Get(resp.body, idField) = Num("1")
  /\ "title" \notin DOMAIN resp.body.f
  /\ resp.body \in {db[req.resource][i] : i \in 1..Len(db[req.resource])}

(***************************************************************************)
(* C6.  After a PATCH that answers 200, the stored record is the previous  *)
(* record with every field of the body overriding the same-named field and *)
(* every other field retained, and its id is the previous id even when the *)
(* body carries another id.                                                *)
(***************************************************************************)
PatchMergesRecord ==
  [][ (Handles({"PATCH"}) /\ resp'.status = 200) =>
        LET r == req'.resource
            ix == FindIndex(Collection(db, r), req'.id)
        IN /\ ix # 0
           /\ MergedInto(db[r][ix], req'.body, db'[r][ix])
           /\ Get(db'[r][ix], idField) = Get(db[r][ix], idField) ]_vars

PatchMergesRecordWitness ==
  /\ Answered("PATCH")
  /\ resp.status = 200
  /\ Get(req.body, idField) = Str("2")
  /\ Get(resp.body, idField) = Num("1")
  /\ Get(resp.body, "title") = Str("a")
  /\ resp.body \in {db[req.resource][i] : i \in 1..Len(db[req.resource])}

(***************************************************************************)
(* C7.  When DELETE answers 200 its body is the prior contents of the      *)
(* record with that id, and the collection then holds no record with that  *)
(* id, so that a following GET of the id answers 404.                      *)
(***************************************************************************)
DeletedIdIsGone ==
  [][ (Handles({"DELETE"}) /\ resp'.status = 200) =>
        LET r == req'.resource
            ix == FindIndex(Collection(db, r), req'.id)
        IN /\ ix # 0
           /\ resp'.body = ToJSON(db[r][ix])
           /\ Matches(db'[r], req'.id) = {} ]_vars

(***************************************************************************)
(* C8.  A POST whose object body has no id field and that answers 201      *)
(* returns the record with a generated, non-empty id, and a GET of that id *)
(* in the same resource then answers that same record.                     *)
(***************************************************************************)
GeneratedIdFindsRecord ==
  [][ (Handles({"POST"}) /\ resp'.status = 201
         /\ req'.body.t = "object" /\ idField \notin DOMAIN req'.body.f) =>
        LET r == req'.resource
            newId == Get(resp'.body, idField)
            ix == FindIndex(db'[r], String(newId))
        IN /\ ~Falsy(newId)
           /\ ix # 0
           /\ ToJSON(db'[r][ix]) = resp'.body ]_vars

(***************************************************************************)
(* C9.  A POST, PUT or PATCH whose body is not a JSON object (absent,      *)
(* null, a string, a number or an array) answers 400.                      *)
(***************************************************************************)
NonObjectBodyRejected ==
  (req.method \in {"POST", "PUT", "PATCH"} /\ req.body.t # "object")
    => resp.status = 400

(***************************************************************************)
(* C10 as claimed.  For every id value stored in a collection, GET of      *)
(* that resource and id answers 200 with the record of that id.            *)
(***************************************************************************)
GetFindsEveryStoredId ==
  (AnsweredItemGet /\ HasResource(db, req.resource)
     /\ Matches(db[req.resource], req.id) # {})
    => /\ resp.status = 200
       /\ resp.body \in {ToJSON(db[req.resource][i]) : i \in Matches(db[req.resource], req.id)}

(***************************************************************************)
(* C10 as amended.  For every id other than the literal "paginate", GET    *)
(* /{resource}/{id} answers the 'resource not found' 404 when the resource *)
(* is unknown, the distinct 'item not found' 404 when no record has that   *)
(* id as a string, and otherwise 200 with the first record whose id has    *)
(* that string form (numeric 1 and "1" alike); GET /{resource}/paginate is *)
(* answered by the pagination route: 200 with a page, never a record.      *)
(***************************************************************************)
GetByIdAnswers ==
  AnsweredItemGet =>
    LET r == req.resource
        hits == Matches(Collection(db, r), req.id)
    IN IF req.id = "paginate"
       THEN resp.status = 200 /\ resp.body.t = "page"
       ELSE IF ~HasResource(db, r)
       THEN resp = ResourceNotFound
       ELSE IF hits = {}
       THEN resp = ItemNotFound /\ resp # ResourceNotFound
       ELSE /\ resp.status = 200
            /\ \E i \in hits : /\ resp.body = ToJSON(db[r][i])
                               /\ \A j \in hits : i <= j

GetByIdAnswersWitness ==
  /\ AnsweredItemGet
  /\ req.id = "1"
  /\ resp.status = 200
  /\ Get(resp.body, idField) = Num("1")

(***************************************************************************)
(* Vocabulary of the listing properties.                                   *)
(***************************************************************************)
\* GET /:resource has just answered
AnsweredList == req.method = "GET" /\ req.id = "" /\ resp.body.t \in {"list", "page"}

\* GET /:resource has just answered with a pagination object
AnsweredPagedList == req.method = "GET" /\ req.id = "" /\ resp.body.t = "page"

\* the step is a reload of the database from a readable file
Reloads == req' = NoReq /\ file.state = "json" /\ db' = file.doc /\ file' = file

\* the step handles GET /:resource
HandlesList == req = NoReq /\ req'.method = "GET" /\ req'.id = "" /\ resp'.body.t \in {"list", "page"}

(***************************************************************************)
(* C11 as claimed.  No GET request changes the in-memory database or the   *)
(* backing file; GET /{resource} on an unknown resource answers 200 with   *)
(* an empty result and does not create the collection; the set of          *)
(* collection names changes only through a POST that answers 201, or a     *)
(* reload.                                                                 *)
(***************************************************************************)
NamesChangeOnlyOnCreated ==
  [][ /\ Handles({"GET"}) => (db' = db /\ file' = file)
      /\ (HandlesList /\ ~HasResource(db, req'.resource)) =>
           /\ resp'.status = 200
           /\ resp'.body.data = <<>>
           /\ ~HasResource(db', req'.resource)
      /\ DOMAIN db' # DOMAIN db =>
           \/ Handles({"POST"}) /\ resp'.status = 201
           \/ Reloads ]_vars

(***************************************************************************)
(* C11 as amended.  No GET request changes the in-memory database or the   *)
(* backing file; GET /{resource} on an unknown resource answers 200 with   *)
(* an empty result and does not create the collection; the set of          *)
(* collection names changes only through a POST with an accepted body,     *)
(* which answers 201 or, when its save fails, 500 and keeps the new        *)
(* collection in memory, or through a reload.                              *)
(***************************************************************************)
NamesChangeOnlyOnPost ==
  [][ /\ Handles({"GET"}) => (db' = db /\ file' = file)
      /\ (HandlesList /\ ~HasResource(db, req'.resource)) =>
           /\ resp'.status = 200
           /\ resp'.body.data = <<>>
           /\ ~HasResource(db', req'.resource)
      /\ DOMAIN db' # DOMAIN db =>
           \/ /\ Handles({"POST"})
              /\ resp'.status \in {201, 500}
              /\ DOMAIN db' = (DOMAIN db) \cup {req'.resource}
           \/ Reloads ]_vars

NamesChangeOnlyOnPostWitness ==
  /\ AnsweredList
  /\ req.resource = "users"
  /\ ~HasResource(db, "users")
  /\ HasResource(db, "posts")
  /\ resp.status = 200
  /\ resp.body.data = <<>>

IsInteger(x) == x.t = "string" /\ ~ParseInt(x).nan
IntegerOf(x) == ParseInt(x).n

\* the query value is an integer >= 1: a valid page or page size
ValidCount(x) == IsInteger(x) /\ IntegerOf(x) >= 1

\* the query value is an integer below zero
Negative(x) == IsInteger(x) /\ IntegerOf(x) < 0

\* the request names its page size at most once
OneSizeParam(q) == q.per_page = Undefined \/ q.limit = Undefined
RequestedSize(q) == IF q.per_page # Undefined THEN q.per_page ELSE q.limit

\* the value a parameter stands for: itself when valid, the default otherwise
OrDefault(x, d) == IF ValidCount(x) THEN IntegerOf(x) ELSE d

\* the records GET /:resource answers for the request's filter alone, in collection order
Listed(q) == Filtered(Collection(db, q.resource), q.query.filter)

\* the number of pages of n records in pages of size
PageCount(n, size) == Max(1, CeilDiv(n, size))

EmptyListingHasNoPrev ==
  (AnsweredPagedList /\ Len(Listed(req)) = 0) =>
    /\ resp.body.pages = 1
    /\ resp.body.items = 0
    /\ resp.body.prev = 0
    /\ resp.body.next = 0

(***************************************************************************)
(* C14 as amended.  For a collection of size 0 the paginated listing       *)
(* returns data = [], pages = 1, items = 0 and next = null for every       *)
(* requested page and page size; prev is null when the requested page is 1 *)
(* or is replaced by 1, and page - 1 when the requested page is above 1.   *)
(***************************************************************************)
EmptyListing ==
  (AnsweredPagedList /\ Len(Listed(req)) = 0) =>
    /\ resp.body.data = <<>>
    /\ resp.body.pages = 1
    /\ resp.body.items = 0
    /\ resp.body.next = 0
    /\ resp.body.prev = OrDefault(req.query.page, 1) - 1

EmptyListingWitness ==
  /\ AnsweredPagedList
  /\ req.query.filter # NoFilter
  /\ Len(Collection(db, req.resource)) > 0
  /\ Len(Listed(req)) = 0
  /\ req.query.page = Str("2")
  /\ resp.body.prev = 1
  /\ resp.body.pages = 1

(***************************************************************************)
(* C15.  For every request whose page is greater than the number of pages  *)
(* the paginated listing returns data = [], next = null and prev = page -  *)
(* 1, not clamped to the last page, while last and pages report the real   *)
(* page count: that of the records listed, in pages of the requested size  *)
(* (10 when none is usable).  For a size below zero the number of pages is *)
(* the one the answer reports.                                             *)
(***************************************************************************)
BeyondLastPage ==
  (AnsweredPagedList /\ ValidCount(req.query.page)) =>
    LET page == IntegerOf(req.query.page)
        size == RequestedSize(req.query)
        real == PageCount(Len(Listed(req)), OrDefault(size, 10))
        beyond == /\ resp.body.data = <<>>
                  /\ resp.body.next = 0
                  /\ resp.body.prev = page - 1
                  /\ resp.body.last = resp.body.pages
    IN /\ (OneSizeParam(req.query) /\ ~Negative(size) /\ page > real) =>
            (beyond /\ resp.body.pages = real)
       /\ page > resp.body.pages => beyond

BeyondLastPageWitness ==
  /\ AnsweredPagedList
  /\ req.query.page = Str("3")
  /\ Len(Listed(req)) >= 1
  /\ resp.body.pages = 1
  /\ resp.body.prev = 2
  /\ resp.body.data = <<>>

(***************************************************************************)
(* C16.  On the paginated listing a page that is non-numeric, zero or      *)
(* negative is replaced by 1 and a page size that is non-numeric, zero or  *)
(* negative is replaced by 10, never by another bound such as 1: the       *)
(* answer is 200 and is the page of the records listed for the page and    *)
(* the size so obtained.                                                   *)
(***************************************************************************)
InvalidValuesUseDefaults ==
  (AnsweredPagedList /\ OneSizeParam(req.query)) =>
    LET page == OrDefault(req.query.page, 1)
        size == OrDefault(RequestedSize(req.query), 10)
        coll == Listed(req)
        start == (page - 1) * size
        k == Min(size, Max(0, Len(coll) - start))
    IN /\ resp.status = 200
       /\ resp.body.pages = PageCount(Len(coll), size)
       /\ resp.body.prev = page - 1
       /\ Len(resp.body.data) = k
       /\ \A i \in 1..k : resp.body.data[i] = ToJSON(coll[start + i])

(***************************************************************************)
(* C17.  GET /{resource}/paginate always answers 200 with a data slice and *)
(* a nested pagination object {currentPage, pageSize, totalItems,          *)
(* totalPages, hasMore} in which hasMore = (currentPage * pageSize <       *)
(* totalItems).                                                            *)
(***************************************************************************)
PaginateAnswersContractB ==
  (req.method = "GET" /\ req.id = "paginate") =>
    /\ resp.status = 200
    /\ "data" \in DOMAIN resp.body
    /\ "pagination" \in DOMAIN resp.body
    /\ DOMAIN resp.body.pagination =
         {"currentPage", "pageSize", "totalItems", "totalPages", "hasMore"}
    /\ resp.body.pagination.hasMore =
         (resp.body.pagination.currentPage * resp.body.pagination.pageSize
            < resp.body.pagination.totalItems)

(***************************************************************************)
(* C18.  For every collection and every page and page-size input, valid or *)
(* invalid, the data slice of the unfiltered paginated listing GET         *)
(* /{resource} equals the data slice GET /{resource}/paginate answers for  *)
(* the same page and size on the same database.                            *)
(***************************************************************************)
SameSliceOnBothEndpoints ==
  (AnsweredPagedList /\ req.query.filter = NoFilter /\ OneSizeParam(req.query)) =>
    resp.body.data =
      PaginateAnswer(db, req.resource, req.query.page, RequestedSize(req.query)).data

SameSliceOnBothEndpointsWitness ==
  /\ AnsweredPagedList
  /\ req.query.filter = NoFilter
  /\ req.query.page = Str("2")
  /\ req.query.limit = Str("-1")
  /\ req.query.per_page = Undefined
  /\ Len(Collection(db, req.resource)) = 2
  /\ Len(resp.body.data) = 1
  /\ resp.body.data = PaginateAnswer(db, req.resource, Str("2"), Str("-1")).data

(***************************************************************************)
(* C19.  GET /{resource} returns a record if and only if, for every query  *)
(* parameter whose name does not start with '_', the record has that field *)
(* and its stringified value equals the stringified query value; a record  *)
(* without the field never matches, whatever the query value.              *)
(***************************************************************************)
HasEqualFields(item, filter) ==
  \A k \in DOMAIN filter :
    k \in DOMAIN item.f /\ String(item.f[k]) = String(filter[k])

FilterRequiresField ==
  AnsweredList =>
    LET matching == SelectSeq(Collection(db, req.resource),
                              LAMBDA item : HasEqualFields(item, req.query.filter))
    IN IF resp.body.t = "list"
       THEN resp.body.data = JsonList(matching)
       ELSE resp.body.items = Len(matching)

(***************************************************************************)
(* C20.  On GET /{resource} with both filter and pagination parameters the *)
(* filter runs first: items is the number of records the filter lets       *)
(* through, pages is computed from that number, data is a run of those     *)
(* records in collection order, and the X-Total-Count and X-Total-Pages    *)
(* headers equal items and pages of the body.                              *)
(***************************************************************************)
FilterBeforePagination ==
  (AnsweredPagedList /\ req.query.filter # NoFilter) =>
    LET matching == Listed(req)
        size == RequestedSize(req.query)
        data == resp.body.data
    IN /\ resp.body.items = Len(matching)
       /\ (OneSizeParam(req.query) /\ ~Negative(size)) =>
            resp.body.pages = PageCount(Len(matching), OrDefault(size, 10))
       /\ \E start \in 0..Len(matching) :
            /\ start + Len(data) <= Len(matching)
            /\ \A i \in 1..Len(data) : data[i] = ToJSON(matching[start + i])
       /\ {"X-Total-Count", "X-Total-Pages"} \subseteq DOMAIN resp.headers
       /\ resp.headers["X-Total-Count"] = ToString(resp.body.items)
       /\ resp.headers["X-Total-Pages"] = ToString(resp.body.pages)

FilterBeforePaginationWitness ==
  /\ AnsweredPagedList
  /\ req.query.filter = [k \in {"title"} |-> Str("a")]
  /\ req.query.per_page = Str("1")
  /\ Len(Collection(db, req.resource)) = 2
  /\ resp.body.items = 1
  /\ Len(resp.body.data) = 1
  /\ resp.headers["X-Total-Count"] = "1"
  /\ resp.headers["X-Total-Pages"] = "1"

(***************************************************************************)
(* Vocabulary of the sorting properties.                                   *)
(***************************************************************************)
\* the request carries at least one of _page, _per_page and _limit
CarriesPaginationParam(q) ==
  q.page # Undefined \/ q.per_page # Undefined \/ q.limit # Undefined

\* the position of a title in alphabetical order
Rank(x) == IF x = Str("a") THEN 1 ELSE 2

\* record a has to come before record b when sorting by field key in the given direction
SortsBefore(a, b, key, order) ==
  /\ key \in DOMAIN a.f
  /\ key \in DOMAIN b.f
  /\ IF order = Str("desc")
     THEN Rank(a.f[key]) > Rank(b.f[key])
     ELSE Rank(a.f[key]) < Rank(b.f[key])

(***************************************************************************)
(* C21.  GET /:resource answers the pagination object whenever the request *)
(* carries at least one of _page, _per_page and _limit, whatever its       *)
(* value, the empty one included, and answers the raw list of all the      *)
(* matching records exactly when none of the three is present.             *)
(***************************************************************************)
PaginatedIffParamPresent ==
  AnsweredList =>
    /\ resp.body.t = "page" <=> CarriesPaginationParam(req.query)
    /\ resp.body.t = "list" => resp.body.data = JsonList(Listed(req))

(***************************************************************************)
(* C22.  GET /:resource?_sort=field&_order=asc|desc answers the records    *)
(* ordered by that field in the requested direction: no record of the      *)
(* answer comes after one it sorts before, and with pagination the first   *)
(* page holds the records that sort first among all the matching ones.     *)
(***************************************************************************)
SortedAsRequested ==
  (AnsweredList /\ req.query.sort # Undefined) =>
    LET key == req.query.sort.v
        order == req.query.order
        data == resp.body.data
        all == JsonList(Listed(req))
    IN /\ \A i, j \in 1..Len(data) :
            i < j => ~SortsBefore(data[j], data[i], key, order)
       /\ (resp.body.t = "page" /\ req.query.page = Str("1")) =>
            \A i \in 1..Len(data), k \in 1..Len(all) :
              ~SortsBefore(all[k], data[i], key, order)
                \/ \E j \in 1..Len(data) : data[j] = all[k]

(***************************************************************************)
(* Vocabulary of the properties of the middleware chain.                   *)
(***************************************************************************)
\* the step answers a request
Answers == req = NoReq /\ req' # NoReq

\* /<path> of a URL /api/<path>; any other URL as it is
Unprefixed(u) == IF Len(u) >= 2 /\ Head(u) = "api" THEN SubSeq(u, 2, Len(u)) ELSE u

\* the request the step answers, with URL u
AnsweredRequest(u) == RawRequest(req'.method, u, req'.query, req'.body)

CreatePassesOptions ==
  (/\ built.by = "create"
   /\ built.given.enableApiPrefix
   /\ req.method = "GET"
   /\ url = <<"api", "posts">>) =>
    /\ options = built.given
    /\ resp.body.t \in {"list", "page"}

(***************************************************************************)
(* C26.  A request whose method and path match a custom route registered   *)
(* before start() is answered by that route's handler or redirect, also    *)
(* when the path has one or two segments and a generic route matches it    *)
(* too.                                                                    *)
(***************************************************************************)
CustomRouteAnswers ==
  (req # NoReq /\ ~(options.readOnly /\ req.method \in WriteMethods)) =>
    \A r \in routes :
      (r.method = req.method /\ r.path = Rewritten(options, url)) => resp = CustomAnswer(r)

(***************************************************************************)
(* Vocabulary of the reload and interleaving properties.                   *)
(***************************************************************************)
\* the step is the file watcher's reaction to a change of the database file
WatcherReloads == watcher = "change" /\ watcher' \in {"reloaded", "error"}

\* what loadJsonFile returns for the file as a whole
WholeFile(f) == IF f.state = "json" THEN f.doc ELSE EmptyDb

(***************************************************************************)
(* C27.  A reload of a missing or malformed database file by the file      *)
(* watcher fails with an error, which is logged, and leaves the in-memory  *)
(* database as it was: later requests never see an empty database in its   *)
(* place.                                                                  *)
(***************************************************************************)
FailedLoadKeepsDatabase ==
  [][(WatcherReloads /\ file.state # "json") => (db' = db /\ watcher' = "error")]_vars

(***************************************************************************)
(* C28.  Under every interleaving of requests held by the delay middleware *)
(* and of file-watch reloads, a request is handled once, in one step that  *)
(* looks up, mutates and flushes on the database of that moment, so the    *)
(* steps form a serial order; its answer is a whole record of the database *)
(* after the step; a reload replaces the database by the whole content of  *)
(* the file; no other step changes the database.                           *)
(***************************************************************************)
InterleavingsAreSerial ==
  [][/\ Answers =>
          /\ \E rq \in pending : rq = AnsweredRequest(url') /\ pending' = pending \ {rq}
          /\ IF SaveAttempted(req', db)
             THEN /\ MutationApplied(req', db, db')
                  /\ IF resp'.status = 500
                     THEN file' = file
                     ELSE resp'.status \in {200, 201} /\ file' = JsonFile(Stringify(db'))
             ELSE db' = db /\ file' = file
          /\ (resp'.status \in {200, 201} /\ req'.method # "DELETE") =>
               \E i \in 1..Len(Collection(db', req'.resource)) :
                 resp'.body = ToJSON(db'[req'.resource][i])
     /\ WatcherReloads => db' = (IF file.state = "missing" THEN db ELSE WholeFile(file))
     /\ (~Answers /\ ~WatcherReloads) => (db' = db /\ pending \subseteq pending')]_vars

InterleavingsAreSerialWitness ==
  /\ req.method = "DELETE"
  /\ resp.status = 200
  /\ RawRequest("PUT", <<"posts", "1">>, NoQuery, Obj([k \in {"title"} |-> Str("b")])) \in pending
  /\ watcher = "change"
  /\ db["posts"] = <<>>

(***************************************************************************)
(* C29.  POST generates an id only when the body has no id field: a body   *)
(* that carries the id field with any JSON value, 0, the empty string and  *)
(* null included, is stored and returned with that value unchanged.        *)
(***************************************************************************)
GivenIdIsKept ==
  (Answered("POST") /\ resp.status = 201 /\ idField \in DOMAIN req.body.f) =>
    /\ Get(resp.body, idField) = req.body.f[idField]
    /\ LET coll == db[req.resource]
       IN Get(coll[Len(coll)], idField) = req.body.f[idField]

(***************************************************************************)
(* C30 as claimed.  When GET /:resource carries both _per_page and _limit, *)
(* the page size is the one _per_page alone stands for, its value or 10    *)
(* when it is invalid, and _limit never changes the answer: the answer is  *)
(* the page of that size.                                                  *)
(***************************************************************************)
PerPageAloneDecides ==
  (AnsweredPagedList /\ req.query.per_page # Undefined /\ req.query.limit # Undefined) =>
    LET size == OrDefault(req.query.per_page, 10)
        page == OrDefault(req.query.page, 1)
        coll == Listed(req)
        start == (page - 1) * size
        k == Min(size, Max(0, Len(coll) - start))
    IN /\ resp.body.pages = PageCount(Len(coll), size)
       /\ Len(resp.body.data) = k
       /\ \A i \in 1..k : resp.body.data[i] = ToJSON(coll[start + i])

====
